---------------------------- MODULE Spec2Model ----------------------------
(***************************************************************************)
(* A model of pySODM/optimization/mcmc.py:                                 *)
(*   perturbate_theta             the walker initialisation with retry     *)
(*   run_EnsembleSampler          the sampling loop with convergence check *)
(*   emcee_sampler_to_dictionary  the reassembly of the flat chain         *)
(* Floating point values are modelled as exact rationals <<n, d>>, d > 0,  *)
(* in lowest terms, with Inf standing for numpy's +inf.                    *)
(***************************************************************************)
EXTENDS Integers, Sequences, FiniteSets, TLC

VARIABLES
    \* perturbate_theta: arguments, locals, position in the code, result
    theta, pert, bounds, verbose,
    lower_bounds, upper_bounds, ndim, nwalkers,
    cond_number, retry_counter, pos,
    pt_pc, pt_ret, attempts,
    \* run_EnsembleSampler: arguments
    es_pos, max_n, print_n, backend_given, settings_given, parameter_shapes,
    \* run_EnsembleSampler: locals, position in the code
    es_nwalkers, es_ndim, old_tau, tau, converged, sampler, issued, checks,
    pool, es_pc, es_error, es_session,
    \* objects that outlive a call: the default value of settings_dict and
    \* the caller's own dictionary
    default_settings, caller_settings,
    \* emcee_sampler_to_dictionary: arguments, locals, position in the code
    \* (thin_arg keeps the value the caller passed for thin)
    discard, thin, thin_arg, settings, autocorr, flat_samples, samples_dict,
    count, sd_pc, sd_error, sd_calls,
    \* the files: the HDF backend, the settings .json, the samples .json
    backend, settings_file, samples_file

pt_vars == <<theta, pert, bounds, verbose, lower_bounds, upper_bounds, ndim,
             nwalkers, cond_number, retry_counter, pos, pt_pc, pt_ret, attempts>>

es_vars == <<es_pos, max_n, print_n, backend_given, settings_given,
             parameter_shapes, es_nwalkers, es_ndim, old_tau, tau, converged,
             sampler, issued, checks, pool, es_pc, es_error, es_session,
             default_settings, caller_settings>>

sd_vars == <<discard, thin, thin_arg, settings, autocorr, flat_samples,
             samples_dict, count, sd_pc, sd_error, sd_calls>>

vars == <<pt_vars, es_vars, sd_vars, backend, settings_file, samples_file>>

\* a step of perturbate_theta leaves the other functions' state and the
\* files alone
pt_Frame == UNCHANGED <<es_vars, sd_vars, backend, settings_file, samples_file>>

\* a step of run_EnsembleSampler leaves the other functions' state and the
\* samples file alone
es_Frame == UNCHANGED <<pt_vars, sd_vars, samples_file>>

\* a step of emcee_sampler_to_dictionary leaves the other functions' state
\* and the backend alone
sd_Frame == UNCHANGED <<pt_vars, es_vars, backend>>

-----------------------------------------------------------------------------
(* Exact rational arithmetic                                               *)

Abs(x) == IF x < 0 THEN -x ELSE x

RECURSIVE Gcd(_, _)
Gcd(a, b) == IF b = 0 THEN a ELSE Gcd(b, a % b)

\* the rational n/d (d # 0) in lowest terms with a positive denominator
Q(n, d) ==
    LET g == Gcd(Abs(n), Abs(d))
        s == IF d < 0 THEN -1 ELSE 1
    IN  <<(s * n) \div g, (s * d) \div g>>

QInt(n)    == <<n, 1>>
QAdd(a, b) == Q(a[1] * b[2] + b[1] * a[2], a[2] * b[2])
QSub(a, b) == Q(a[1] * b[2] - b[1] * a[2], a[2] * b[2])
QMul(a, b) == Q(a[1] * b[1], a[2] * b[2])
QDiv(a, b) == Q(a[1] * b[2], a[2] * b[1])
QLess(a, b) == a[1] * b[2] < b[1] * a[2]
QLeq(a, b)  == a[1] * b[2] <= b[1] * a[2]
QMax(a, b) == IF QLess(a, b) THEN b ELSE a
QMin(a, b) == IF QLess(b, a) THEN b ELSE a
QZero == QInt(0)
QOne  == QInt(1)

\* numpy's +inf
Inf == "inf"
\* any finite float: the magnitude of a finite condition number is not used
Finite == "finite"

-----------------------------------------------------------------------------
(* perturbate_theta                                                        *)

\* default of the argument "multiplier"
multiplier == 2

\* the retry budget of the while loop
MaxRetry == 20

\* bound of the model: the attempts of one call that are followed
MaxAttempts == 23

\* bounds=None; an empty tuple is falsy as well
None == << >>

Half    == Q(1, 2)
Quarter == Q(1, 4)

\* the point estimates a call is given
Thetas ==
    { <<QInt(0)>>,
      <<QInt(2)>>,
      <<QInt(4), QInt(4)>> }

\* the relative perturbations a call is given
Perts ==
    { <<Half>>,
      <<Quarter, Half>> }

\* the bounds a call is given: None or (lower, upper) pairs
BoundsArgs ==
    { None,
      << <<QInt(0), QInt(0)>> >>,
      << <<QInt(1), QInt(8)>> >>,
      << <<QInt(1), QInt(16)>>, <<QInt(1), QInt(16)>> >>,
      << <<QInt(3), QInt(6)>>, <<QInt(3), QInt(6)>> >> }

\* the extreme values of np.random.uniform(low=-1, high=1)
Draws == {-1, 1}

\* np.clip(x, lo, hi) = minimum(maximum(x, lo), hi)
Clip(x, lo, hi) == QMin(QMax(x, lo), hi)

\* theta + theta*pert*u for one entry and one draw u
PerturbOne(t, p, u) == QAdd(t, QMul(QMul(t, p), QInt(u)))

\* the 2x2 minor of rows a, b of a matrix with two columns is zero
\* (x*y' = y*x', denominators cleared)
MinorZero(m, a, b) ==
    m[a][1][1] * m[b][2][1] * m[a][2][2] * m[b][1][2]
        = m[a][2][1] * m[b][1][1] * m[a][1][2] * m[b][2][2]

\* the columns of m (one or two) are linearly dependent: its smallest
\* singular value is zero
RankDeficient(m) ==
    IF Len(m[1]) = 1
    THEN \A w \in DOMAIN m : m[w][1][1] = 0
    ELSE \A a, b \in DOMAIN m : a < b => MinorZero(m, a, b)

\* np.linalg.cond(pos), in exact arithmetic: infinite exactly for a matrix
\* that is not of full column rank
Cond(m) == IF RankDeficient(m) THEN Inf ELSE Finite

\* the validation errors
LenMismatch(th, pe, bo) ==
    \/ Len(th) # Len(pe)
    \/ (bo # None /\ Len(bo) # Len(th))

\* mutant of WhileCond: the retry budget is tested in the loop condition
WhileCond_Budget(c, rc) == c = Inf /\ rc < MaxRetry

\* the test of the while loop
WhileCond(c, rc) == c = Inf

\* the "if" of the loop body: count a retry
CountsRetry(c, vb, rc) == c = Inf /\ vb /\ rc < MaxRetry

\* the "elif" of the loop body: give up
GivesUp(rc) == rc >= MaxRetry

pt_Init ==
    /\ theta \in Thetas
    /\ pert \in Perts
    /\ bounds \in BoundsArgs
    /\ verbose \in BOOLEAN
    /\ lower_bounds = << >>
    /\ upper_bounds = << >>
    /\ ndim = 0
    /\ nwalkers = 0
    /\ cond_number = Inf
    /\ retry_counter = 0
    /\ pos = << >>
    /\ pt_pc = "start"
    /\ pt_ret = << >>
    /\ attempts = 0

\* mutant of pt_Invalid: the lengths are compared after the first pass of
\* the loop
pt_Invalid_Late ==
    /\ pt_pc = "start"
    /\ LenMismatch(theta, pert, bounds)
    /\ pt_pc' = "raised_validation"
    /\ attempts' = attempts + 1
    /\ UNCHANGED <<theta, pert, bounds, verbose, lower_bounds, upper_bounds,
                   ndim, nwalkers, cond_number, retry_counter, pos, pt_ret>>
    /\ pt_Frame

\* lines 182-186: a length mismatch raises
pt_Invalid ==
    /\ pt_pc = "start"
    /\ LenMismatch(theta, pert, bounds)
    /\ pt_pc' = "raised_validation"
    /\ UNCHANGED <<theta, pert, bounds, verbose, lower_bounds, upper_bounds,
                   ndim, nwalkers, cond_number, retry_counter, pos, pt_ret,
                   attempts>>
    /\ pt_Frame

\* lines 187-197: the clipping window and the locals of the loop
pt_Setup ==
    /\ pt_pc = "start"
    /\ ~LenMismatch(theta, pert, bounds)
    /\ IF bounds # None
       THEN /\ lower_bounds' =
                 [i \in DOMAIN bounds |-> QDiv(bounds[i][1], QSub(QOne, pert[i]))]
            /\ upper_bounds' =
                 [i \in DOMAIN bounds |-> QDiv(bounds[i][2], QAdd(QOne, pert[i]))]
       ELSE UNCHANGED <<lower_bounds, upper_bounds>>
    /\ ndim' = Len(theta)
    /\ nwalkers' = Len(theta) * multiplier
    /\ cond_number' = Inf
    /\ retry_counter' = 0
    /\ pt_pc' = "loop"
    /\ UNCHANGED <<theta, pert, bounds, verbose, pos, pt_ret, attempts>>
    /\ pt_Frame

\* line 200: theta is clipped into the window while retry_counter is 0
ClippedTheta ==
    IF bounds # None /\ retry_counter = 0
    THEN [i \in DOMAIN theta |-> Clip(theta[i], lower_bounds[i], upper_bounds[i])]
    ELSE theta

\* lines 198-212: one pass of the while loop; a pass that ends the loop
\* returns the triple
pt_Attempt ==
    /\ pt_pc = "loop"
    /\ WhileCond(cond_number, retry_counter)
    /\ attempts < MaxAttempts
    /\ \E th \in {ClippedTheta} :
       \E val \in {[i \in DOMAIN th |->
                       [d \in Draws |-> PerturbOne(th[i], pert[i], d)]]} :
       \E u \in [1..nwalkers -> [1..ndim -> Draws]] :
       \E p \in {[w \in DOMAIN u |-> [i \in DOMAIN th |-> val[i][u[w][i]]]]} :
       \E c \in {Cond(p)} :
       \E rc \in {IF CountsRetry(c, verbose, retry_counter)
                   THEN retry_counter + 1 ELSE retry_counter} :
          /\ theta' = th
          /\ pos' = p
          /\ cond_number' = c
          /\ retry_counter' = rc
          /\ IF ~CountsRetry(c, verbose, retry_counter) /\ GivesUp(retry_counter)
             THEN pt_pc' = "raised_degenerate" /\ pt_ret' = pt_ret
             ELSE IF WhileCond(c, rc)
             THEN pt_pc' = "loop" /\ pt_ret' = pt_ret
             ELSE pt_pc' = "returned" /\ pt_ret' = <<ndim, nwalkers, p>>
    /\ attempts' = attempts + 1
    /\ UNCHANGED <<pert, bounds, verbose, lower_bounds, upper_bounds, ndim,
                   nwalkers>>
    /\ pt_Frame

\* perturbate_theta is not running
pt_Idle ==
    /\ theta = << >> /\ pert = << >> /\ bounds = None /\ verbose = FALSE
    /\ lower_bounds = << >> /\ upper_bounds = << >>
    /\ ndim = 0 /\ nwalkers = 0
    /\ cond_number = Inf /\ retry_counter = 0 /\ pos = << >>
    /\ pt_pc = "idle" /\ pt_ret = << >> /\ attempts = 0

pt_Next == pt_Invalid \/ pt_Setup \/ pt_Attempt

-----------------------------------------------------------------------------
(* run_EnsembleSampler                                                     *)

\* bound of the model: the largest max_n a call is given
MaxN == 3

\* bound of the model: the largest print_n a call is given
MaxPrintN == 2

\* the calls of run_EnsembleSampler in one behaviour
Sessions == <<"first", "second">>

\* thres_multi
thres_multi == 50

\* thres_frac = 0.03
thres_frac == Q(3, 100)

\* the reserved key of the settings
ShapesKey == "calibrated_parameters_shapes"

\* an empty dictionary
EmptyDict == [k \in {} |-> 0]

\* a .json file: missing, or holding a document
NoFile == [exists |-> FALSE, doc |-> EmptyDict]
File(d) == [exists |-> TRUE, doc |-> d]

\* d.update({k: v})
DictUpdate(d, k, v) == [x \in DOMAIN d \cup {k} |-> IF x = k THEN v ELSE d[x]]

\* objective_function.parameter_shapes: name -> shape, in insertion order
ShapeTables ==
    { << <<"a", <<1>> >> >>,
      << <<"b", <<2>> >> >>,
      << <<"a", <<1>> >>, <<"b", <<2>> >> >>,
      << <<"a", <<1>> >>, <<"c", <<1, 1>> >> >>,
      << <<"c", <<2, 1>> >>, <<"a", <<1>> >> >> }

\* np.prod(shape)
RECURSIVE NpProd(_)
NpProd(sh) == IF sh = << >> THEN 1 ELSE Head(sh) * NpProd(Tail(sh))

\* the flat dimension of a shape table: the sum of the products
RECURSIVE TableDim(_)
TableDim(t) == IF t = << >> THEN 0 ELSE NpProd(Head(t)[2]) + TableDim(Tail(t))

\* the pos argument: a (nwalkers, ndim) matrix; val names its content
PosArgs ==
    { [shape |-> sh, val |-> v] : sh \in {<<2, 1>>, <<4, 2>>}, v \in {-1, -2} }

\* a backend file that does not exist yet
NoBackend == [initialized |-> FALSE, shape |-> <<0, 0>>, iteration |-> 0]

\* no sampler constructed yet
NoSampler == [nwalkers |-> 0, ndim |-> 0, iteration |-> 0]

\* backend.get_chain(discard=0, thin=1, flat=False)[-1, ...]: the positions
\* stored by the last iteration
LastStored(be) == [shape |-> be.shape, val |-> be.iteration]

\* the integrated autocorrelation times the diagnostics can return for one
\* parameter (emcee's estimator with tol=0 can return values below zero)
TauVals == { Q(-1, 100), Q(1, 100), Q(103, 10000), Q(3, 100) }

\* the tau vectors of a chain with d parameters
Taus(d) == [1..d -> TauVals]

RECURSIVE QSum(_)
QSum(v) == IF v = << >> THEN QZero ELSE QAdd(Head(v), QSum(Tail(v)))

\* np.max(tau)
NpMax(v) == CHOOSE x \in {v[i] : i \in DOMAIN v} :
                \A y \in {v[i] : i \in DOMAIN v} : QLeq(y, x)

\* np.inf as a float, and as the value old_tau starts with (a scalar,
\* written here as a vector of one entry)
QInf == <<1, 0>>
InfTau == <<QInf>>

\* np.mean(tau); the mean of np.inf is inf
NpMean(v) ==
    IF \E i \in DOMAIN v : v[i] = QInf
    THEN QInf
    ELSE QDiv(QSum(v), QInt(Len(v)))

\* line 136: np.max(tau) * thres_multi < sampler.iteration
ChainLongEnough(t, it) == QLess(QMul(NpMax(t), QInt(thres_multi)), QInt(it))

\* mutant of DriftSmall: the drift threshold is tested with <=
DriftSmall_Leq(old, t) ==
    LET m  == NpMean(t)
        mo == NpMean(old)
    IN  IF mo = QInf
        THEN QLess(m, QZero)
        ELSE IF m = QZero
        THEN FALSE
        ELSE LET d == QSub(mo, m)
                 a == IF QLess(d, QZero) THEN QSub(QZero, d) ELSE d
             IN  QLeq(QDiv(a, m), thres_frac)

\* line 138: np.abs(np.mean(old_tau) - np.mean(tau)) / np.mean(tau) < thres_frac
\* in IEEE arithmetic: x/0 is inf or nan, and inf/m has the sign of m
DriftSmall(old, t) ==
    LET m  == NpMean(t)
        mo == NpMean(old)
    IN  IF mo = QInf
        THEN QLess(m, QZero)
        ELSE IF m = QZero
        THEN FALSE
        ELSE LET d == QSub(mo, m)
                 a == IF QLess(d, QZero) THEN QSub(QZero, d) ELSE d
             IN  QLess(QDiv(a, m), thres_frac)

\* lines 136-138: the value of "converged"
Converged(t, old, it) == ChainLongEnough(t, it) /\ DriftSmall(old, t)

\* mutant of Breaks: the loop goes on after a converged check
Breaks_Never(c) == FALSE

\* lines 139-140: the loop is left when the check converged
Breaks(c) == c

\* mutant of SkipsDiagnostics: the test of the remainder is inverted
SkipsDiagnostics_Inverted(it, pn) == it % pn = 0

\* line 109: the iteration is skipped by the diagnostics
SkipsDiagnostics(it, pn) == it % pn # 0

\* line 86: nwalkers, ndim = pos.shape
ShapeOf(p, bg, be) == p.shape

\* lines 88-94: the positions the sampler starts from
StartPos(p, bg, be) == IF bg THEN LastStored(be) ELSE p

\* mutant of NextOldTau: the previous value is kept
NextOldTau_Keep(old, t) == old

\* line 141: the value stored as old_tau at the end of a check that did
\* not converge
NextOldTau(old, t) == t

es_Idle ==
    /\ es_pos = [shape |-> <<0, 0>>, val |-> 0]
    /\ max_n = 0 /\ print_n = 1
    /\ backend_given = FALSE /\ settings_given = FALSE
    /\ parameter_shapes = << >>
    /\ es_nwalkers = 0 /\ es_ndim = 0
    /\ old_tau = InfTau /\ tau = << >> /\ converged = FALSE
    /\ sampler = NoSampler /\ issued = 0 /\ checks = 0
    /\ pool = "none" /\ es_pc = "idle" /\ es_error = "none"
    /\ es_session = 0
    /\ default_settings = EmptyDict
    /\ caller_settings = EmptyDict

\* no file has been written
NoFiles ==
    /\ backend = NoBackend
    /\ settings_file = NoFile
    /\ samples_file = NoFile

es_Init ==
    /\ es_Idle

\* lines 59-106: a call up to the construction of the sampler
es_Call ==
    /\ es_pc = "idle"
    /\ es_session < Len(Sessions)
    /\ es_session' = es_session + 1
    /\ \E p \in PosArgs, n \in 0..MaxN, pn \in 1..MaxPrintN,
          bg \in BOOLEAN, sg \in BOOLEAN :
       \E ps \in {t \in ShapeTables : TableDim(t) = p.shape[2]} :
        /\ bg => backend.initialized
        /\ max_n' = n /\ print_n' = pn
        /\ backend_given' = bg /\ settings_given' = sg
        /\ parameter_shapes' = ps
        \* lines 81-84: settings_dict.update(...) and json.dump
        /\ IF sg
           THEN /\ caller_settings' = DictUpdate(caller_settings, ShapesKey, ps)
                /\ settings_file' = File(caller_settings')
                /\ UNCHANGED default_settings
           ELSE /\ default_settings' = DictUpdate(default_settings, ShapesKey, ps)
                /\ settings_file' = File(default_settings')
                /\ UNCHANGED caller_settings
        \* line 86
        /\ es_nwalkers' = ShapeOf(p, bg, backend)[1]
        /\ es_ndim' = ShapeOf(p, bg, backend)[2]
        /\ old_tau' = InfTau /\ tau' = << >> /\ converged' = FALSE
        /\ issued' = 0 /\ checks' = 0
        /\ IF bg /\ backend.iteration = 0
           THEN \* line 94: indexing an empty chain raises
                /\ es_pos' = p
                /\ es_pc' = "raised" /\ es_error' = "IndexError"
                /\ pool' = "none" /\ sampler' = NoSampler
                /\ UNCHANGED backend
           ELSE /\ es_pos' = StartPos(p, bg, backend)
                \* lines 89-91: backend.reset(nwalkers, ndim)
                /\ backend' = IF bg THEN backend
                              ELSE [initialized |-> TRUE,
                                    shape |-> <<es_nwalkers', es_ndim'>>,
                                    iteration |-> 0]
                \* lines 104-106: the pool is created, then the sampler;
                \* emcee refuses a backend of another shape
                /\ IF backend'.shape # <<es_nwalkers', es_ndim'>>
                   THEN /\ es_pc' = "raised" /\ es_error' = "ValueError"
                        /\ pool' = "closed"
                        /\ sampler' = [nwalkers |-> es_nwalkers',
                                       ndim |-> es_ndim',
                                       iteration |-> backend'.iteration]
                   ELSE /\ es_pc' = "sampling" /\ es_error' = "none"
                        /\ pool' = "open"
                        /\ sampler' = [nwalkers |-> es_nwalkers',
                                       ndim |-> es_ndim',
                                       iteration |-> backend'.iteration]
    /\ es_Frame

\* lines 107-141: one iteration of sampler.sample and the body of the loop
es_Iterate ==
    /\ es_pc = "sampling"
    /\ issued < max_n
    /\ issued' = issued + 1
    /\ \E it \in {sampler.iteration + 1} :
        /\ sampler' = [sampler EXCEPT !.iteration = it]
        /\ backend' = [backend EXCEPT !.iteration = it]
        /\ es_pos' = LastStored(backend')
        /\ IF SkipsDiagnostics(it, print_n)
           THEN UNCHANGED <<tau, old_tau, converged, checks, pool, es_pc,
                            es_error>>
           ELSE /\ checks' = checks + 1
                /\ \/ \* autocorrelation_plot or traceplot raises
                      /\ es_pc' = "raised" /\ es_error' = "diagnostics"
                      /\ pool' = "closed"
                      /\ UNCHANGED <<tau, old_tau, converged>>
                   \/ \E t \in Taus(es_ndim) :
                      \E c \in {Converged(t, old_tau, it)} :
                        /\ tau' = t
                        /\ converged' = c
                        /\ IF Breaks(c)
                           THEN \* break, then return sampler
                                /\ es_pc' = "returned" /\ pool' = "closed"
                                /\ UNCHANGED old_tau
                           ELSE /\ old_tau' = NextOldTau(old_tau, t)
                                /\ UNCHANGED <<es_pc, pool>>
                        /\ UNCHANGED es_error
    /\ UNCHANGED <<max_n, print_n, backend_given, settings_given,
                   parameter_shapes, es_nwalkers, es_ndim, es_session,
                   default_settings, caller_settings, settings_file>>
    /\ es_Frame

\* mutant of es_SamplerRaises: the error is caught and the loop goes on
es_SamplerRaises_Retry ==
    /\ es_pc = "sampling"
    /\ issued < max_n
    /\ es_error' = "sampler"
    /\ UNCHANGED <<es_pos, max_n, print_n, backend_given, settings_given,
                   parameter_shapes, es_nwalkers, es_ndim, old_tau, tau,
                   converged, sampler, issued, checks, es_session, backend,
                   default_settings, caller_settings, settings_file, es_pc,
                   pool>>
    /\ es_Frame

\* line 107: the external sampler raises during an iteration
es_SamplerRaises ==
    /\ es_pc = "sampling"
    /\ issued < max_n
    /\ es_pc' = "raised" /\ es_error' = "sampler"
    /\ pool' = "closed"
    /\ UNCHANGED <<es_pos, max_n, print_n, backend_given, settings_given,
                   parameter_shapes, es_nwalkers, es_ndim, old_tau, tau,
                   converged, sampler, issued, checks, es_session, backend,
                   default_settings, caller_settings, settings_file>>
    /\ es_Frame

\* mutant of es_Exhausted: the function returns with the pool left open
es_Exhausted_PoolLeft ==
    /\ es_pc = "sampling"
    /\ issued = max_n
    /\ es_pc' = "returned"
    /\ UNCHANGED <<es_pos, max_n, print_n, backend_given, settings_given,
                   parameter_shapes, es_nwalkers, es_ndim, old_tau, tau,
                   converged, sampler, issued, checks, es_error, es_session,
                   backend, default_settings, caller_settings, settings_file,
                   pool>>
    /\ es_Frame

\* lines 107, 143: sampler.sample is exhausted after max_n iterations
es_Exhausted ==
    /\ es_pc = "sampling"
    /\ issued = max_n
    /\ es_pc' = "returned" /\ pool' = "closed"
    /\ UNCHANGED <<es_pos, max_n, print_n, backend_given, settings_given,
                   parameter_shapes, es_nwalkers, es_ndim, old_tau, tau,
                   converged, sampler, issued, checks, es_error, es_session,
                   backend, default_settings, caller_settings, settings_file>>
    /\ es_Frame

\* control is back at the caller: the frame of the call is gone, the
\* backend, the dictionaries and the settings file stay
es_Leave ==
    /\ es_pc \in {"returned", "raised"}
    /\ es_pos' = [shape |-> <<0, 0>>, val |-> 0]
    /\ max_n' = 0 /\ print_n' = 1
    /\ backend_given' = FALSE /\ settings_given' = FALSE
    /\ parameter_shapes' = << >>
    /\ es_nwalkers' = 0 /\ es_ndim' = 0
    /\ old_tau' = InfTau /\ tau' = << >> /\ converged' = FALSE
    /\ sampler' = NoSampler /\ issued' = 0 /\ checks' = 0
    /\ pool' = "none" /\ es_pc' = "idle" /\ es_error' = "none"
    /\ UNCHANGED <<es_session, backend, default_settings, caller_settings,
                   settings_file>>
    /\ es_Frame

es_Next ==
    es_Call \/ es_Iterate \/ es_SamplerRaises \/ es_Exhausted \/ es_Leave

-----------------------------------------------------------------------------
(* emcee_sampler_to_dictionary                                             *)

\* bound of the model: the iterations stored in the backend
MaxChain == 4

\* bound of the model: the largest discard a call is given
MaxDiscard == 1

\* bound of the model: the largest thin a call is given
MaxThinArg == 2

\* the calls of emcee_sampler_to_dictionary for one run in one behaviour
Reassemblies == <<"first", "second">>

\* the sample of walker w for column d stored by iteration i
ChainVal(i, w, d) == <<i, w, d>>

\* the values of a samples dictionary: a flat series, a list of series,
\* a field of the settings
Series(x)     == [kind |-> "series", val |-> x]
SeriesList(x) == [kind |-> "list", val |-> x]
Setting(x)    == [kind |-> "setting", val |-> x]

\* the fields a caller stores in settings_dict beside the shape table
UserSettings ==
    { EmptyDict,
      [k \in {"note"} |-> Setting(7)],
      [k \in {"a", "note"} |-> Setting(7)] }

\* the autocorrelation times sampler.get_autocorr_time() can return for one
\* parameter
AutocorrVals == { QInt(1), QInt(3), QInt(5) }

\* the outcomes of sampler.get_autocorr_time(): it raises, or returns tau
AutocorrFailed == [ok |-> FALSE, tau |-> << >>]
AutocorrOutcomes(d) ==
    {AutocorrFailed} \cup {[ok |-> TRUE, tau |-> t] : t \in [1..d -> AutocorrVals]}

\* Python's round(x) of a float: to the nearest integer, a tie to the even one
PyRound(q) ==
    LET f == q[1] \div q[2]
        r == 2 * (q[1] - f * q[2])
    IN  IF r < q[2] THEN f
        ELSE IF r > q[2] THEN f + 1
        ELSE IF f % 2 = 0 THEN f ELSE f + 1

\* mutant of ThinFrom: a tie is rounded up
ThinFrom_HalfUp(ac) ==
    IF ~ac.ok THEN 1
    ELSE LET q == QMul(Half, NpMax(ac.tau))
             r == (2 * q[1] + q[2]) \div (2 * q[2])
         IN  IF r < 1 THEN 1 ELSE r

\* lines 238-246: the thinning stride
ThinFrom(ac) ==
    IF ~ac.ok THEN 1
    ELSE LET r == PyRound(QMul(Half, NpMax(ac.tau)))
         IN  IF r < 1 THEN 1 ELSE r

\* mutant of Stride: the except branch keeps the stride of the caller
Stride_ArgOnFailure(arg, ac) == IF ac.ok THEN ThinFrom(ac) ELSE arg

\* lines 214, 238-246: the value of thin after the try statement, for a
\* call that was given thin = arg
Stride(arg, ac) == ThinFrom(ac)

\* the iterations (1-based) kept by chain[discard + thin - 1 :: thin]
KeptIters(n, dc, th) ==
    [k \in 1..(IF n > dc THEN (n - dc) \div th ELSE 0) |-> dc + k * th]

\* line 252: sampler.get_chain(discard, thin, flat=True): one row per kept
\* iteration and walker, one column per dimension
GetChainFlat(be, dc, th) ==
    LET kept == KeptIters(be.iteration, dc, th)
        W    == be.shape[1]
    IN  [r \in 1..(Len(kept) * W) |->
            [d \in 1..be.shape[2] |->
                ChainVal(kept[((r - 1) \div W) + 1], ((r - 1) % W) + 1, d)]]

\* flat_samples[:, c] as a list, c counted from 0
Column(flat, c) == [r \in DOMAIN flat |-> flat[r][c + 1]]

\* mutant of Advance: the offset moves by one column whatever the shape
Advance_One(c, shape) == c + 1

\* lines 260, 264: the offset after a parameter of this shape
Advance(c, shape) == c + NpProd(shape)

\* lines 256-263: the entry of one parameter, read at offset c
Entry(flat, c, shape) ==
    IF shape # <<1>>
    THEN SeriesList([j \in 1..NpProd(shape) |-> Column(flat, c + j - 1)])
    ELSE Series(Column(flat, c))

\* lines 253-264: the loop over the shape table from offset c, adding to d
RECURSIVE Reassemble(_, _, _, _)
Reassemble(table, flat, c, d) ==
    IF table = << >>
    THEN [dict |-> d, count |-> c]
    ELSE Reassemble(Tail(table), flat, Advance(c, Head(table)[2]),
                    DictUpdate(d, Head(table)[1],
                               Entry(flat, c, Head(table)[2])))

\* mutant of DictDel: the key is left in place
DictDel_Keep(d, k) == d

\* del d[k]
DictDel(d, k) == [x \in DOMAIN d \ {k} |-> d[x]]

\* d.update(e)
DictMerge(d, e) ==
    [x \in DOMAIN d \cup DOMAIN e |-> IF x \in DOMAIN e THEN e[x] ELSE d[x]]

sd_Idle ==
    /\ discard = 0 /\ thin = 1 /\ thin_arg = 1
    /\ settings = EmptyDict
    /\ autocorr = AutocorrFailed
    /\ flat_samples = << >>
    /\ samples_dict = EmptyDict
    /\ count = 0
    /\ sd_pc = "idle" /\ sd_error = "none" /\ sd_calls = 0

\* a run has left its backend and its settings file; the call is given
\* discard and thin
sd_Init ==
    /\ \E t \in ShapeTables, n \in 0..MaxChain, u \in UserSettings :
        /\ backend = [initialized |-> TRUE,
                      shape |-> <<multiplier * TableDim(t), TableDim(t)>>,
                      iteration |-> n]
        /\ settings_file = File(DictUpdate(u, ShapesKey, t))
    /\ samples_file = NoFile
    /\ discard \in 0..MaxDiscard
    /\ thin \in 1..MaxThinArg
    /\ thin_arg = thin
    /\ settings = EmptyDict
    /\ autocorr = AutocorrFailed
    /\ flat_samples = << >>
    /\ samples_dict = EmptyDict
    /\ count = 0
    /\ sd_pc = "start" /\ sd_error = "none" /\ sd_calls = 1

\* lines 226-246: the settings and the backend are loaded, the thinning
\* stride is set
sd_Load ==
    /\ sd_pc = "start"
    /\ IF ~settings_file.exists
       THEN /\ sd_pc' = "raised" /\ sd_error' = "FileNotFoundError"
            /\ UNCHANGED <<settings, autocorr, thin>>
       ELSE /\ settings' = settings_file.doc
            /\ \E ac \in AutocorrOutcomes(backend.shape[2]) :
                 /\ autocorr' = ac
                 /\ thin' = Stride(thin, ac)
            /\ sd_pc' = "thinned"
            /\ UNCHANGED sd_error
    /\ UNCHANGED <<discard, thin_arg, flat_samples, samples_dict, count,
                   sd_calls, settings_file, samples_file>>
    /\ sd_Frame

\* lines 252-264: the flat chain is read and cut into the parameters
sd_Assemble ==
    /\ sd_pc = "thinned"
    /\ \E flat \in {GetChainFlat(backend, discard, thin)} :
       \E r \in {Reassemble(settings[ShapesKey], flat, 0, EmptyDict)} :
         /\ flat_samples' = flat
         /\ samples_dict' = r.dict
         /\ count' = r.count
    /\ sd_pc' = "assembled"
    /\ UNCHANGED <<discard, thin, thin_arg, settings, autocorr, sd_error,
                   sd_calls, settings_file, samples_file>>
    /\ sd_Frame

\* lines 266-269: the shape table is removed from the settings, the rest
\* is merged into the samples
sd_Merge ==
    /\ sd_pc = "assembled"
    /\ settings' = DictDel(settings, ShapesKey)
    /\ samples_dict' = DictMerge(samples_dict, settings')
    /\ sd_pc' = "merged"
    /\ UNCHANGED <<discard, thin, thin_arg, autocorr, flat_samples, count,
                   sd_error, sd_calls, settings_file, samples_file>>
    /\ sd_Frame

\* mutant of sd_Remove: the settings .json is left in place
sd_Remove_Keep ==
    /\ sd_pc = "merged"
    /\ sd_pc' = "removed"
    /\ UNCHANGED <<discard, thin, thin_arg, settings, autocorr, flat_samples,
                   samples_dict, count, sd_error, sd_calls, samples_file,
                   settings_file>>
    /\ sd_Frame

\* line 271: the settings .json is removed
sd_Remove ==
    /\ sd_pc = "merged"
    /\ settings_file' = NoFile
    /\ sd_pc' = "removed"
    /\ UNCHANGED <<discard, thin, thin_arg, settings, autocorr, flat_samples,
                   samples_dict, count, sd_error, sd_calls, samples_file>>
    /\ sd_Frame

\* lines 277-281: the samples .json is written and the dictionary returned
sd_Save ==
    /\ sd_pc = "removed"
    /\ samples_file' = File(samples_dict)
    /\ sd_pc' = "returned"
    /\ UNCHANGED <<discard, thin, thin_arg, settings, autocorr, flat_samples,
                   samples_dict, count, sd_error, sd_calls, settings_file>>
    /\ sd_Frame

\* line 278: the samples .json cannot be opened for writing; the call
\* raises with the settings .json already removed
sd_SaveFails ==
    /\ sd_pc = "removed"
    /\ sd_pc' = "raised" /\ sd_error' = "OSError"
    /\ UNCHANGED <<discard, thin, thin_arg, settings, autocorr, flat_samples,
                   samples_dict, count, sd_calls, settings_file, samples_file>>
    /\ sd_Frame

\* the caller calls again for the same run, with the same arguments and
\* the files as the last call left them
sd_Recall ==
    /\ sd_pc = "returned"
    /\ sd_calls < Len(Reassemblies)
    /\ sd_calls' = sd_calls + 1
    /\ thin' \in 1..MaxThinArg
    /\ thin_arg' = thin'
    /\ settings' = EmptyDict
    /\ autocorr' = AutocorrFailed
    /\ flat_samples' = << >>
    /\ samples_dict' = EmptyDict
    /\ count' = 0
    /\ sd_pc' = "start" /\ sd_error' = "none"
    /\ UNCHANGED <<discard, settings_file, samples_file>>
    /\ sd_Frame

sd_Next ==
    \/ sd_Load \/ sd_Assemble \/ sd_Merge \/ sd_Remove \/ sd_Save
    \/ sd_SaveFails \/ sd_Recall

-----------------------------------------------------------------------------
(* The specifications                                                      *)

WalkerInit == pt_Init /\ es_Idle /\ sd_Idle /\ NoFiles

DriverInit == pt_Idle /\ es_Init /\ sd_Idle /\ NoFiles

ReassemblerInit == pt_Idle /\ es_Idle /\ sd_Init

SpecWalker == WalkerInit /\ [][pt_Next]_vars

SpecDriver == DriverInit /\ [][es_Next]_vars

SpecReassembler == ReassemblerInit /\ [][sd_Next]_vars

-----------------------------------------------------------------------------
(* The claims                                                              *)

\* C1: a call of perturbate_theta whose attempts are all degenerate never
\* starts another pass of the loop once it has made MaxRetry retries: it
\* has raised the degeneracy error instead, whatever verbose and bounds are
C1_RetryBudgetEndsLoop ==
    pt_pc = "loop" => attempts <= MaxRetry

\* C2: a call that returns hands back the matrix of its last attempt, and
\* that matrix is of full column rank, so its condition number is finite
C2_ReturnedMatrixFinite ==
    pt_pc = "returned" =>
        /\ pt_ret = <<ndim, nwalkers, pos>>
        /\ cond_number # Inf
        /\ ~RankDeficient(pt_ret[3])

\* a call returns after at least one degenerate attempt
C2_Witness ==
    /\ pt_pc = "returned"
    /\ attempts > 1
    /\ ~RankDeficient(pt_ret[3])

\* C3: the first diagnostic check of a session never reports convergence,
\* so a converged session has performed at least two checks
C3_FirstCheckNeverConverges ==
    converged => checks >= 2

\* the rule of C4, written on the entries of tau and with the quotient
\* cleared: 50*tau[i] < iteration for every i, and |mean(old_tau) - mean(tau)|
\* below 0.03*mean(tau), the quotient by a mean of zero or below being
\* what numpy makes of it (inf or nan for zero, a value <= 0 below zero)
C4_Rule(t, old, it) ==
    /\ \A i \in DOMAIN t : QLess(QMul(QInt(50), t[i]), QInt(it))
    /\ LET m == QDiv(QSum(t), QInt(Len(t))) IN
       IF old = InfTau
       THEN QLess(m, QZero)
       ELSE LET mo == QDiv(QSum(old), QInt(Len(old))) IN
            \/ QLess(m, QZero)
            \/ /\ QLess(QZero, m)
               /\ QLess(QSub(mo, m), QMul(Q(3, 100), m))
               /\ QLess(QSub(m, mo), QMul(Q(3, 100), m))

\* C4: at every diagnostic check the driver declares convergence (sets
\* converged and leaves the loop) iff max(tau)*50 < iteration and the
\* relative drift of the mean of tau against the previous check's tau is
\* below 0.03
C4_ConvergedIffBoth ==
    [][(checks' = checks + 1 /\ es_pc' # "raised") =>
         /\ converged' <=> C4_Rule(tau', old_tau, sampler'.iteration)
         /\ converged' <=> es_pc' = "returned"]_vars

\* a check converged on a tau that differs from the previous check's tau
C4_Witness ==
    /\ es_pc = "returned"
    /\ converged
    /\ checks >= 2
    /\ tau # old_tau

\* C5: a session issues at most max_n iterations; once a check converged
\* nothing more is issued; a session that returned either converged at the
\* check of its last iteration or issued exactly max_n iterations without
\* a converged check
C5_TwoWaysToEnd ==
    /\ issued <= max_n
    /\ converged => es_pc = "returned"
    /\ es_pc = "returned" =>
         IF converged
         THEN /\ issued >= 1
              /\ sampler.iteration % print_n = 0
              /\ C4_Rule(tau, old_tau, sampler.iteration)
         ELSE issued = max_n

\* a session stopped early, on a converged check
C5_Witness ==
    /\ es_pc = "returned"
    /\ converged
    /\ issued < max_n

\* C6: after an iteration the diagnostics and the convergence check run
\* iff sampler.iteration is a multiple of print_n; otherwise tau, old_tau
\* and converged are left as they were
C6_CheckIffMultiple ==
    [][issued' = issued + 1 =>
         IF sampler'.iteration % print_n = 0
         THEN checks' = checks + 1
         ELSE checks' = checks /\ UNCHANGED <<tau, old_tau, converged>>]_vars

\* a session has skipped the diagnostics on one iteration and run them on
\* another
C6_Witness ==
    /\ es_pc = "sampling"
    /\ checks >= 1
    /\ issued > checks

\* C7: with a backend supplied the pos argument is ignored: any other pos
\* argument, of whatever shape, would give the same sampler dimensions and
\* the same start positions, those stored last in the backend
C7_PosIgnoredOnResume ==
    [][(es_pc = "idle" /\ es_pc' # "idle" /\ backend_given'
            /\ backend.iteration > 0) =>
         \A p2 \in PosArgs :
            /\ ShapeOf(p2, TRUE, backend) = <<sampler'.nwalkers, sampler'.ndim>>
            /\ StartPos(p2, TRUE, backend) = es_pos'
            /\ es_pos' = LastStored(backend)]_vars

\* the shape table the reassembly walks
C8_Table == settings_file.doc[ShapesKey]

\* the sum of product(shape) of the parameters before the k-th
C8_Offset(table, k) == TableDim(SubSeq(table, 1, k - 1))

\* the entry of the k-th parameter holds the columns from its offset on:
\* one flat series for shape [1], product(shape) series otherwise, every
\* value taken from the column it stands for
C8_BlockOf(k) ==
    LET name  == C8_Table[k][1]
        shape == C8_Table[k][2]
        off   == C8_Offset(C8_Table, k)
    IN  /\ name \in DOMAIN samples_dict
        /\ IF shape = <<1>>
           THEN /\ samples_dict[name].kind = "series"
                /\ samples_dict[name].val = Column(flat_samples, off)
                /\ \A r \in DOMAIN flat_samples :
                      samples_dict[name].val[r][3] = off + 1
           ELSE /\ samples_dict[name].kind = "list"
                /\ Len(samples_dict[name].val) = NpProd(shape)
                /\ \A j \in 1..NpProd(shape) :
                      /\ samples_dict[name].val[j] = Column(flat_samples, off + j - 1)
                      /\ \A r \in DOMAIN flat_samples :
                            samples_dict[name].val[j][r][3] = off + j

\* C8: after the loop over the shape table the k-th parameter holds the
\* consecutive columns that start at the sum of product(shape) of the
\* earlier parameters, and the running offset has covered columns 0..D-1
C8_ColumnBlocks ==
    sd_pc = "assembled" =>
        /\ \A k \in DOMAIN C8_Table : C8_BlockOf(k)
        /\ DOMAIN samples_dict = {C8_Table[k][1] : k \in DOMAIN C8_Table}
        /\ count = backend.shape[2]

\* the table {a: [1], b: [2]} on a chain with retained draws: b's second
\* series is the third column
C8_Witness ==
    /\ sd_pc = "assembled"
    /\ C8_Table = << <<"a", <<1>> >>, <<"b", <<2>> >> >>
    /\ Len(flat_samples) > 0
    /\ samples_dict["a"] = Series(Column(flat_samples, 0))
    /\ samples_dict["b"].val[2] = Column(flat_samples, 2)

\* the number of retained draws: kept iterations times walkers
C9_Retained == Len(KeptIters(backend.iteration, discard, thin)) * backend.shape[1]

\* C9: the mapping that is returned (the samples after the settings were
\* merged in) holds every parameter of the shape table with its sample
\* series, every series as long as the number of retained draws
C9_ParametersSurviveMerge ==
    sd_pc = "merged" =>
        \A k \in DOMAIN C8_Table :
            LET name  == C8_Table[k][1]
                shape == C8_Table[k][2]
            IN  /\ name \in DOMAIN samples_dict
                /\ samples_dict[name].kind = IF shape = <<1>> THEN "series" ELSE "list"
                /\ IF shape = <<1>>
                   THEN Len(samples_dict[name].val) = C9_Retained
                   ELSE \A j \in DOMAIN samples_dict[name].val :
                           Len(samples_dict[name].val[j]) = C9_Retained

\* r is the integer nearest to q, the even one of the two on a tie
C10_IsRound(r, q) ==
    LET d == QSub(QInt(r), q)
        a == IF QLess(d, QZero) THEN QSub(QZero, d) ELSE d
    IN  /\ QLeq(a, Q(1, 2))
        /\ a = Q(1, 2) => r % 2 = 0

\* C10: once the stride is set it is max(1, round(0.5 * max(tau))) when the
\* estimator returned tau and 1 when it raised; the estimator's error is
\* not raised by the call, the chain is read with that stride, and a call
\* that returned has written the samples it built
C10_ThinPolicy ==
    sd_pc \in {"thinned", "assembled", "merged", "removed", "returned"} =>
        /\ IF autocorr.ok
           THEN \E i \in DOMAIN autocorr.tau :
                  /\ \A j \in DOMAIN autocorr.tau :
                        QLeq(autocorr.tau[j], autocorr.tau[i])
                  /\ \E r \in 0..(autocorr.tau[i][1] + 1) :
                        /\ C10_IsRound(r, QMul(Q(1, 2), autocorr.tau[i]))
                        /\ thin = IF r < 1 THEN 1 ELSE r
           ELSE thin = 1
        /\ sd_error = "none"
        /\ sd_pc # "thinned" => Len(flat_samples) = C9_Retained
        /\ sd_pc = "returned" => samples_file = File(samples_dict)

\* the estimator raised and the call returned the samples it wrote, read
\* with stride 1
C10_Witness ==
    /\ sd_pc = "returned"
    /\ ~autocorr.ok
    /\ thin = 1
    /\ Len(flat_samples) > 0
    /\ samples_file = File(samples_dict)

\* the lengths of the arguments do not agree
C11_Mismatch ==
    \/ Len(theta) # Len(pert)
    \/ (bounds # None /\ Len(bounds) # Len(theta))

\* C11: a call whose lengths do not agree raises the validation error as
\* its first step: it never reaches the loop, and when the error is raised
\* no window was computed, theta was not clipped, nothing was drawn or
\* retried and no position matrix exists
C11_MismatchRaisesFirst ==
    /\ C11_Mismatch => pt_pc \in {"start", "raised_validation"}
    /\ pt_pc = "raised_validation" =>
         /\ C11_Mismatch
         /\ attempts = 0
         /\ retry_counter = 0
         /\ lower_bounds = << >> /\ upper_bounds = << >>
         /\ theta \in Thetas
         /\ pos = << >>
         /\ pt_ret = << >>

\* the error is raised for bounds that do not match a theta and pert of
\* the same length
C11_Witness ==
    /\ pt_pc = "raised_validation"
    /\ Len(theta) = Len(pert)
    /\ bounds # None
    /\ Len(bounds) # Len(theta)
    /\ pos = << >>

\* C12: when the sampler raises during the loop the session is over with
\* that error: the step that raises stores nothing and issues nothing, the
\* backend holds the iterations completed so far, and the only step that
\* follows hands control back to the caller with the backend as it is
C12_SamplerErrorEndsSession ==
    /\ [](es_error = "sampler" =>
            /\ es_pc = "raised"
            /\ backend.iteration = sampler.iteration
            /\ issued < max_n)
    /\ [][(es_error # "sampler" /\ es_error' = "sampler") =>
            /\ es_pc = "sampling"
            /\ backend' = backend
            /\ sampler' = sampler
            /\ issued' = issued]_vars
    /\ [][es_error = "sampler" =>
            /\ es_pc' = "idle"
            /\ backend' = backend]_vars

\* the sampler raised after at least one iteration was stored
C12_Witness ==
    /\ es_pc = "raised"
    /\ es_error = "sampler"
    /\ issued >= 1
    /\ backend.iteration >= 1
    /\ backend.iteration = sampler.iteration

\* C13: with bounds given, positive lower <= upper in every dimension and
\* 0 <= pert < 1, every entry of the returned matrix lies in the [lower,
\* upper] interval of its dimension
C13_ReturnedInsideBounds ==
    (/\ pt_pc = "returned"
     /\ bounds # None
     /\ \A i \in DOMAIN bounds :
           /\ QLess(QZero, bounds[i][1])
           /\ QLeq(bounds[i][1], bounds[i][2])
     /\ \A i \in DOMAIN pert :
           QLeq(QZero, pert[i]) /\ QLess(pert[i], QOne))
    => \A w \in DOMAIN pt_ret[3] : \A i \in DOMAIN bounds :
           /\ QLeq(bounds[i][1], pt_ret[3][w][i])
           /\ QLeq(pt_ret[3][w][i], bounds[i][2])

\* C14: an attempt whose condition number is finite ends the call with
\* the return of (D, multiplier*D, the matrix of that attempt), a matrix
\* of multiplier*D rows and D columns, and with no error
C14_FiniteAttemptAccepted ==
    [][(pt_pc = "loop" /\ attempts' = attempts + 1 /\ cond_number' # Inf) =>
         /\ pt_pc' = "returned"
         /\ pt_ret' = <<Len(theta), multiplier * Len(theta), pos'>>
         /\ Len(pos') = multiplier * Len(theta)
         /\ \A w \in DOMAIN pos' : Len(pos'[w]) = Len(theta)]_vars

\* C15: while a session samples, old_tau is +inf before its first check and
\* the tau of the latest check after it; a step of the session writes
\* old_tau only at the end of a check that did not converge, and then with
\* the tau of that check
C15_OldTauIsPreviousTau ==
    /\ [](es_pc = "sampling" =>
            old_tau = IF checks = 0 THEN InfTau ELSE tau)
    /\ [][es_pc = "sampling" =>
            IF checks' = checks + 1 /\ es_pc' = "sampling"
            THEN old_tau' = tau' /\ ~converged'
            ELSE old_tau' = old_tau]_vars

\* a session is past its second check, none of them converged
C15_Witness ==
    /\ es_pc = "sampling"
    /\ checks >= 2
    /\ issued > checks
    /\ old_tau = tau
    /\ old_tau # InfTau

\* C16: the pool of a session is created once, by the call, stays open
\* for every iteration, and is closed when the session returns or raises;
\* a call that raises before the pool is created (line 94) has none
C16_OnePoolPerSession ==
    /\ [](es_pc = "sampling" => pool = "open")
    /\ [](es_pc \in {"returned", "raised"} =>
            pool = IF es_error = "IndexError" THEN "none" ELSE "closed")
    /\ [](es_pc = "idle" => pool = "none")
    /\ [][pool' # pool =>
            \/ pool = "none" /\ es_pc = "idle" /\ pool' \in {"open", "closed"}
            \/ pool = "open" /\ pool' = "closed"
                  /\ es_pc' \in {"returned", "raised"}
            \/ pool = "closed" /\ pool' = "none" /\ es_pc' = "idle"]_vars
    /\ [][issued' = issued + 1 => pool = "open" /\ pool' \in {"open", "closed"}]_vars

\* a session that reached its iteration cap has returned, its pool closed
C16_Witness ==
    /\ es_pc = "returned"
    /\ ~converged
    /\ issued = max_n
    /\ issued >= 2
    /\ pool = "closed"

\* C17: between sessions the default settings hold nothing a session wrote,
\* and the dictionary of the caller is never changed by a session
C17_FreshSettings ==
    /\ es_pc = "idle" => ShapesKey \notin DOMAIN default_settings
    /\ caller_settings = EmptyDict

\* C18: the dictionary after the merge holds every field of the settings
\* store but the reserved key, with the value of the store, and does not
\* hold the reserved key; the samples document that is written is that
\* dictionary
C18_SettingsFieldsInOutput ==
    /\ sd_pc = "merged" =>
         /\ \A k \in DOMAIN settings_file.doc \ {ShapesKey} :
               /\ k \in DOMAIN samples_dict
               /\ samples_dict[k] = settings_file.doc[k]
         /\ ShapesKey \notin DOMAIN samples_dict
    /\ sd_pc = "returned" =>
         /\ \A k \in DOMAIN settings :
               /\ k \in DOMAIN samples_file.doc
               /\ samples_file.doc[k] = settings[k]
         /\ ShapesKey \notin DOMAIN samples_dict
         /\ ShapesKey \notin DOMAIN samples_file.doc

\* a call returned an output that carries the field "note" of the settings
C18_Witness ==
    /\ sd_pc = "returned"
    /\ "note" \in DOMAIN samples_dict
    /\ samples_dict["note"] = Setting(7)
    /\ "a" \notin DOMAIN settings
    /\ ShapesKey \notin DOMAIN samples_dict

\* C19: whatever value the caller had passed for thin, the stride after
\* the try statement, the rows read from the chain and the dictionary
\* built from them would be the ones of this call
C19_ThinArgumentIgnored ==
    sd_pc \in {"thinned", "assembled", "merged", "removed", "returned"} =>
        \A t2 \in 1..MaxThinArg :
            /\ Stride(t2, autocorr) = thin
            /\ sd_pc # "thinned" =>
                  flat_samples = GetChainFlat(backend, discard, Stride(t2, autocorr))
            /\ sd_pc = "assembled" =>
                  samples_dict =
                     Reassemble(settings[ShapesKey],
                                GetChainFlat(backend, discard, Stride(t2, autocorr)),
                                0, EmptyDict).dict

\* a call that was given thin = 2 read the chain with stride 1 after the
\* estimator raised
C19_Witness ==
    /\ sd_pc = "returned"
    /\ thin_arg = 2
    /\ ~autocorr.ok
    /\ thin = 1
    /\ Len(flat_samples) = (backend.iteration - discard) * backend.shape[1]
    /\ Len(flat_samples) > 0

\* C20: the samples document is written only after the settings document
\* is removed; a call that returned has left no settings document and the
\* samples document; a call that fails at the write has left neither; a
\* second call for the run ends with the error of the settings read and
\* leaves the samples document as the first call wrote it
C20_SettingsConsumed ==
    /\ [](sd_pc = "returned" =>
            ~settings_file.exists /\ samples_file = File(samples_dict))
    /\ []((sd_pc = "raised" /\ sd_error = "OSError") =>
            ~settings_file.exists /\ ~samples_file.exists)
    /\ [](sd_calls > 1 =>
            /\ sd_pc \in {"start", "raised"}
            /\ sd_pc = "raised" => sd_error = "FileNotFoundError"
            /\ ~settings_file.exists
            /\ samples_file.exists)
    /\ [][samples_file' # samples_file =>
            ~settings_file.exists /\ sd_pc = "removed" /\ sd_calls = 1]_vars
    /\ [][sd_calls' > 1 => samples_file' = samples_file]_vars

\* the second call for a run has failed at the settings read, the samples
\* document of the first call is in place
C20_Witness ==
    /\ sd_calls = 2
    /\ sd_pc = "raised"
    /\ sd_error = "FileNotFoundError"
    /\ ~settings_file.exists
    /\ samples_file.exists

=============================================================================
